---- MODULE Spec2Model ----
(***************************************************************************)
(* State-machine model of the ROOMANCE backend (src/main.py): the like /   *)
(* dislike ledger db["match"], the profile store db["profile"], the        *)
(* message log db["message"] and the request handlers that read and write  *)
(* them.  A collection is a sequence of documents in natural (insertion)   *)
(* order.  ObjectIds are naturals; datetimes are naturals read from a      *)
(* non-decreasing clock.                                                   *)
(***************************************************************************)
EXTENDS Integers, Sequences, FiniteSets, TLC

VARIABLES
  match,      \* db["match"]: one document per recorded decision
  profile,    \* db["profile"]
  message,    \* db["message"]
  clock,      \* the latest value datetime.utcnow() has returned
  resp,       \* request and response of the last handler that ran to completion
  handlers    \* the like_profile requests in flight (concurrent specification)

vars == <<match, profile, message, clock, resp, handlers>>

(* ------------------------------ bounds -------------------------------- *)

MaxMatch == 2      \* documents in db["match"] (the specifications not named below)
MaxActed == 1      \* documents in db["match"] (SpecDiscovery)
MaxProfiles == 2   \* documents in db["profile"]
MaxMsgs == 2       \* documents in db["message"]
NProcs == 2        \* like_profile requests in flight at once
MaxRace == 3       \* documents in db["match"] (SpecRace)

(* ------------------------------ inputs -------------------------------- *)

Users == {1, 2, 3}                       \* the ObjectIds of the users
Times == {0, 1}                          \* the values datetime.utcnow() returns
Procs == 1..NProcs
Invalid == 0                             \* to_oid raised HTTPException(400)
None == [none |-> TRUE]                  \* Python's None

\* str(ObjectId): the canonical lower-case hex form
OidStr(o) == <<"oid", o>>

\* an upper-case spelling of user 1's id, and a string that is no ObjectId
Upper1 == <<"OID", 1>>
BadId == <<"bad", 0>>
UserIds == {OidStr(u) : u \in Users}
IdStrings == UserIds \cup {Upper1, BadId}

Nicknames == {"nick"}
Texts == {"hi"}
DefaultLimit == 50
Limits == {-1, 0, 1, DefaultLimit}

LikeRequest(s, t, a) == [user_id |-> s, target_id |-> t, action |-> a]

\* the bodies POSTed to /profiles/like: every decision of a user about a
\* user, and one request per way of being rejected or respelt
LikeRequests ==
  {LikeRequest(s, t, a) : s \in UserIds, t \in UserIds, a \in {"like", "dislike"}}
    \cup {LikeRequest(Upper1, OidStr(2), "like"), LikeRequest(Upper1, OidStr(1), "like"),
          LikeRequest(BadId, OidStr(1), "like"), LikeRequest(OidStr(1), BadId, "dislike"),
          LikeRequest(OidStr(1), OidStr(2), "superlike")}

\* the decisions of a user about another user, and one about itself
DecisionRequests ==
  {rq \in {LikeRequest(s, t, a) : s \in UserIds, t \in UserIds, a \in {"like", "dislike"}} :
     rq.user_id # rq.target_id}
    \cup {LikeRequest(OidStr(1), OidStr(1), "like")}

\* the bodies POSTed to /profile/details
DetailsRequests ==
  {[user_id |-> s, nickname |-> n] : s \in UserIds \cup {BadId}, n \in Nicknames}

\* the like_profile requests of the concurrent specification: users 1 and 2
\* deciding about each other, and a rejected request
ConcRequests ==
  {LikeRequest(OidStr(u), OidStr(t), a) :
     u \in {1, 2}, t \in {1, 2}, a \in {"like", "dislike"}} \ 
  {LikeRequest(OidStr(2), OidStr(2), a) : a \in {"like", "dislike"}}

\* the query parameters of GET /chats/messages
MessageQueries ==
  {[user_id |-> s, peer_id |-> t, limit |-> l] : s \in UserIds, t \in UserIds, l \in Limits}
    \cup {[user_id |-> Upper1, peer_id |-> OidStr(2), limit |-> DefaultLimit],
          [user_id |-> BadId, peer_id |-> OidStr(2), limit |-> DefaultLimit]}

\* the bodies POSTed to /chats/send
SendRequests ==
  {[user_id |-> s, peer_id |-> t, text |-> x] : s \in UserIds, t \in UserIds, x \in Texts}
    \cup {[user_id |-> OidStr(1), peer_id |-> BadId, text |-> "hi"]}

(* ----------------------------- utilities ------------------------------ *)

\* ObjectId(id_str): hex digits in either case name the same ObjectId
to_oid(s) == IF s[1] \in {"oid", "OID"} THEN s[2] ELSE Invalid

\* datetime.utcnow() after it returned t: the clock does not run backwards
Later(t) == {x \in Times : x >= t}

\* datetime.isoformat()
Iso(t) == <<"iso", t>>

DateFields == {"created_at", "updated_at"}

\* serialize(doc): _id popped and returned as the string "id", datetimes as
\* ISO strings, every other field (ObjectIds included) as stored
serialize(doc) ==
  IF doc = None THEN None
  ELSE [k \in (DOMAIN doc \ {"_id"}) \cup {"id"} |->
          IF k = "id" THEN OidStr(doc["_id"])
          ELSE IF k \in DateFields THEN Iso(doc[k])
          ELSE doc[k]]

\* LikeRequest.action: Field(..., pattern="^(like|dislike)$")
ActionPattern == {"like", "dislike"}

(* --------------------------- collection queries ----------------------- *)

\* find_one(filter), given find(filter): the first document in natural order
FindOne(found) == IF found = <<>> THEN None ELSE Head(found)

\* the least index of a non-empty set of indices, 0 for the empty set
First(indices) ==
  IF indices = {} THEN 0 ELSE CHOOSE i \in indices : \A j \in indices : i <= j

\* insert d into the sequence s sorted by key(_) and dir (1 ascending, -1
\* descending), after every element that is not strictly behind it (stable)
RECURSIVE InsertSorted(_, _, _, _)
InsertSorted(s, d, key, dir) ==
  IF s = <<>> THEN <<d>>
  ELSE IF dir * d[key] < dir * Head(s)[key] THEN <<d>> \o s
  ELSE <<Head(s)>> \o InsertSorted(Tail(s), d, key, dir)

\* cursor.sort(key, dir): a stable sort of the natural order
RECURSIVE Sort(_, _, _)
Sort(coll, key, dir) ==
  IF coll = <<>> THEN <<>>
  ELSE InsertSorted(Sort(SubSeq(coll, 1, Len(coll) - 1), key, dir),
                    coll[Len(coll)], key, dir)

\* cursor.limit(n): 0 is no limit, a negative n limits to |n| documents
Limit(s, n) ==
  LET k == IF n < 0 THEN -n ELSE n
  IN IF n = 0 \/ k >= Len(s) THEN s ELSE SubSeq(s, 1, k)

\* [serialize(d) for d in docs]
SerializeAll(docs) == [i \in DOMAIN docs |-> serialize(docs[i])]

(* ------------------------------ db["match"] --------------------------- *)

\* ObjectId of the k-th document inserted into a collection
NewId(coll, base) == base + Len(coll) + 1

MatchKeyIndex_UserOnly(m, u, t) ==
  First({i \in DOMAIN m : m[i].user_id = u})

\* the filter {"user_id": u, "target_id": t} of like_profile's update_one
MatchKeyIndex(m, u, t) ==
  First({i \in DOMAIN m : m[i].user_id = u /\ m[i].target_id = t})

UpdateMatchDoc_KeepsAction(m, i, a, now) ==
  [m EXCEPT ![i].updated_at = now]

UpdateMatchDoc_AlwaysLike(m, i, a, now) ==
  [m EXCEPT ![i].action = "like", ![i].updated_at = now]

\* update_one found a document: $set action and updated_at on it
UpdateMatchDoc(m, i, a, now) ==
  [m EXCEPT ![i].action = a, ![i].updated_at = now]

\* update_one found none: upsert inserts the filter's fields, $set and
\* $setOnInsert
InsertMatchDoc(m, u, t, a, now, created) ==
  Append(m, [_id |-> NewId(m, 100), user_id |-> u, target_id |-> t,
             action |-> a, updated_at |-> now, created_at |-> created])

UpsertMatch_AlwaysInserts(m, u, t, a, now, created) ==
  InsertMatchDoc(m, u, t, a, now, created)

\* db["match"].update_one(filter, update, upsert=True) run on its own
UpsertMatch(m, u, t, a, now, created) ==
  LET i == MatchKeyIndex(m, u, t)
  IN IF i # 0 THEN UpdateMatchDoc(m, i, a, now)
     ELSE InsertMatchDoc(m, u, t, a, now, created)

ReciprocalLike_WrongField(m, u, t) ==
  FindOne(SelectSeq(m, LAMBDA d : d.user_id = t /\ d.target_id = t /\ d.action = "like")) # None

ReciprocalLike_AnyAction(m, u, t) ==
  FindOne(SelectSeq(m, LAMBDA d : d.user_id = t /\ d.target_id = u)) # None

\* find_one({"user_id": t, "target_id": u, "action": "like"}) is not None
ReciprocalLike(m, u, t) ==
  FindOne(SelectSeq(m, LAMBDA d : d.user_id = t /\ d.target_id = u /\ d.action = "like")) # None

\* like_profile's test user_oid == target_oid, on the parsed ObjectIds
SelfTarget_RawStrings(payload) == payload.user_id = payload.target_id
SelfTarget(payload) == to_oid(payload.user_id) = to_oid(payload.target_id)

(* ------------------------------ responses ----------------------------- *)

Response(op, rq, status, body) ==
  [op |-> op, req |-> rq, status |-> status, body |-> body]

NoResponse == Response("none", None, 0, None)

\* raise HTTPException(status_code, detail) and pydantic's 422
Error(op, rq, status, detail) == Response(op, rq, status, [detail |-> detail])

NoHandlers == [p \in Procs |-> [pc |-> "idle"]]

Init ==
  /\ match = <<>>
  /\ profile = <<>>
  /\ message = <<>>
  /\ clock = 0
  /\ resp = NoResponse
  /\ handlers = NoHandlers

(* --------------------------- POST /profiles/like ---------------------- *)

like_profile(payload) ==
  LET rq == payload
      action == payload.action
      user_oid == to_oid(payload.user_id)
      target_oid == to_oid(payload.target_id)
  IN
  /\ IF action \notin ActionPattern
     THEN /\ resp' = Error("like", rq, 422, "string_pattern_mismatch")
          /\ UNCHANGED <<match, clock>>
     ELSE IF user_oid = Invalid \/ target_oid = Invalid
     THEN /\ resp' = Error("like", rq, 400, "Invalid id format")
          /\ UNCHANGED <<match, clock>>
     ELSE IF SelfTarget(payload)
     THEN /\ resp' = Error("like", rq, 400, "Cannot like yourself")
          /\ UNCHANGED <<match, clock>>
     ELSE \E now \in Later(clock) : \E created \in Later(now) :
          /\ match' = UpsertMatch(match, user_oid, target_oid, action, now, created)
          /\ clock' = created
          /\ resp' = Response("like", rq, 200,
                       [matched |-> action = "like"
                                    /\ ReciprocalLike(match', user_oid, target_oid)])
  /\ UNCHANGED <<profile, message, handlers>>

(* ----------------------------- db["profile"] -------------------------- *)

ProfileIndex(pr, u) == First({i \in DOMAIN pr : pr[i].user_id = u})

\* db["profile"].find_one({"user_id": u})
FindProfile(pr, u) == FindOne(SelectSeq(pr, LAMBDA d : d.user_id = u))

\* $set of the given fields on document i
SetFields(coll, i, changes) ==
  [coll EXCEPT ![i] = [k \in DOMAIN coll[i] |->
                         IF k \in DOMAIN changes THEN changes[k] ELSE coll[i][k]]]

\* update_one({"user_id": u}, {"$set": ..., "$setOnInsert": ...}, upsert=True);
\* bio, tags, photos and age are stored like nickname and read by no handler
UpsertProfile(pr, u, nickname, now, created) ==
  LET i == ProfileIndex(pr, u)
  IN IF i # 0
     THEN SetFields(pr, i, [user_id |-> u, nickname |-> nickname, updated_at |-> now])
     ELSE Append(pr, [_id |-> NewId(pr, 200), user_id |-> u, nickname |-> nickname,
                      updated_at |-> now, created_at |-> created])

(* --------------------------- POST /profile/details -------------------- *)

create_or_complete_profile(details) ==
  LET rq == details
      nickname == details.nickname
      user_oid == to_oid(details.user_id)
  IN
  /\ IF user_oid = Invalid
     THEN /\ resp' = Error("details", rq, 400, "Invalid id format")
          /\ UNCHANGED <<profile, clock>>
     ELSE \E now \in Later(clock) : \E created \in Later(now) :
          /\ profile' = UpsertProfile(profile, user_oid, nickname, now, created)
          /\ clock' = created
          /\ resp' = Response("details", rq, 200, serialize(FindProfile(profile', user_oid)))
  /\ UNCHANGED <<match, message, handlers>>

(* --------------------------- POST /profile/update --------------------- *)

\* payload: a record of user_id and the fields given a value other than None
update_profile(payload) ==
  LET user_oid == to_oid(payload.user_id)
      changes == [k \in DOMAIN payload \ {"user_id"} |-> payload[k]]
  IN
  /\ IF user_oid = Invalid
     THEN /\ resp' = Error("update", payload, 400, "Invalid id format")
          /\ UNCHANGED <<profile, clock>>
     ELSE IF DOMAIN changes = {}
     THEN /\ resp' = Error("update", payload, 400, "No changes provided")
          /\ UNCHANGED <<profile, clock>>
     ELSE \E now \in Later(clock) :
          /\ clock' = now
          /\ LET i == ProfileIndex(profile, user_oid)
                 set == [k \in DOMAIN changes \cup {"updated_at"} |->
                           IF k = "updated_at" THEN now ELSE changes[k]]
             IN IF i = 0
                THEN /\ resp' = Error("update", payload, 404, "Profile not found")
                     /\ UNCHANGED profile
                ELSE /\ profile' = SetFields(profile, i, set)
                     /\ resp' = Response("update", payload, 200,
                                         serialize(FindProfile(profile', user_oid)))
  /\ UNCHANGED <<match, message, handlers>>

\* the bodies POSTed to /profile/update
UpdatePayloads ==
  {[user_id |-> s, nickname |-> n] : s \in UserIds \cup {BadId}, n \in Nicknames}
    \cup {[user_id |-> OidStr(1)]}

(* --------------------------- GET /profiles/next ----------------------- *)

ActedIds_LikesOnly(m, u) ==
  {m[i].target_id : i \in {j \in DOMAIN m : m[j].user_id = u /\ m[j].action = "like"}}

\* the target_id of every db["match"] document of user u
ActedIds(m, u) == {m[i].target_id : i \in {j \in DOMAIN m : m[j].user_id = u}}

Candidates_Ascending(pr, u) == Sort(SelectSeq(pr, LAMBDA d : d.user_id # u), "updated_at", 1)

Candidates_IncludesSelf(pr, u) == Sort(pr, "updated_at", -1)

\* db["profile"].find({"user_id": {"$ne": u}}).sort("updated_at", -1)
Candidates(pr, u) == Sort(SelectSeq(pr, LAMBDA d : d.user_id # u), "updated_at", -1)

NoMoreProfiles == [message |-> "No more profiles"]

NextProfile_IgnoresLedger(m, pr, u) ==
  LET cand == FindOne(Candidates(pr, u))
  IN IF cand # None THEN serialize(cand) ELSE NoMoreProfiles

\* the handler's return value
NextProfile(m, pr, u) ==
  LET acted_ids == ActedIds(m, u)
      cand == FindOne(SelectSeq(Candidates(pr, u), LAMBDA d : d.user_id \notin acted_ids))
  IN IF cand # None THEN serialize(cand) ELSE NoMoreProfiles

next_profile(user_id) ==
  LET rq == [user_id |-> user_id]
      user_oid == to_oid(user_id)
  IN
  /\ resp' = IF user_oid = Invalid
             THEN Error("next", rq, 400, "Invalid id format")
             ELSE Response("next", rq, 200, NextProfile(match, profile, user_oid))
  /\ UNCHANGED <<match, profile, message, clock, handlers>>

(* ----------------------------- GET /chats/list ------------------------ *)

ListChats_NoReciprocalCheck(m, pr, u) ==
  LET my_likes == SelectSeq(m, LAMBDA d : d.user_id = u /\ d.action = "like")
      listed == SelectSeq(my_likes, LAMBDA like : FindProfile(pr, like.target_id) # None)
  IN [i \in DOMAIN listed |-> serialize(FindProfile(pr, listed[i].target_id))]

\* the handler's return value: peers
ListChats(m, pr, u) ==
  LET my_likes == SelectSeq(m, LAMBDA d : d.user_id = u /\ d.action = "like")
      listed == SelectSeq(my_likes, LAMBDA like :
                         /\ ReciprocalLike(m, u, like.target_id)
                         /\ FindProfile(pr, like.target_id) # None)
  IN [i \in DOMAIN listed |-> serialize(FindProfile(pr, listed[i].target_id))]

list_chats(user_id) ==
  LET rq == [user_id |-> user_id]
      user_oid == to_oid(user_id)
  IN
  /\ resp' = IF user_oid = Invalid
             THEN Error("chats", rq, 400, "Invalid id format")
             ELSE Response("chats", rq, 200, ListChats(match, profile, user_oid))
  /\ UNCHANGED <<match, profile, message, clock, handlers>>

(* ---------------------------- GET /chats/messages --------------------- *)

Between_OneDirection(d, u, p) == d.sender_id = u /\ d.receiver_id = p

\* the filter {"$or": [{sender u, receiver p}, {sender p, receiver u}]}
Between(d, u, p) ==
  \/ d.sender_id = u /\ d.receiver_id = p
  \/ d.sender_id = p /\ d.receiver_id = u

GetMessages_OnlyWhileMatched(msgs, u, p, limit) ==
  IF ReciprocalLike(match, u, p) /\ ReciprocalLike(match, p, u)
  THEN SerializeAll(Limit(Sort(SelectSeq(msgs, LAMBDA d : Between(d, u, p)), "created_at", 1),
                          limit))
  ELSE <<>>

\* the handler's return value
GetMessages(msgs, u, p, limit) ==
  SerializeAll(Limit(Sort(SelectSeq(msgs, LAMBDA d : Between(d, u, p)), "created_at", 1),
                     limit))

get_messages(query) ==
  LET rq == query
      limit == query.limit
      u == to_oid(query.user_id)
      p == to_oid(query.peer_id)
  IN
  /\ resp' = IF u = Invalid \/ p = Invalid
             THEN Error("messages", rq, 400, "Invalid id format")
             ELSE Response("messages", rq, 200, GetMessages(message, u, p, limit))
  /\ UNCHANGED <<match, profile, message, clock, handlers>>

(* ------------------------------ POST /chats/send ---------------------- *)

send_message(payload) ==
  LET rq == payload
      text == payload.text
      u == to_oid(payload.user_id)
      p == to_oid(payload.peer_id)
  IN
  /\ IF u = Invalid \/ p = Invalid
     THEN /\ resp' = Error("send", rq, 400, "Invalid id format")
          /\ UNCHANGED <<message, clock>>
     ELSE \E now \in Later(clock) :
          /\ clock' = now
          /\ LET mid == NewId(message, 300)
                 doc == [_id |-> mid, sender_id |-> u, receiver_id |-> p,
                         text |-> text, created_at |-> now]
             IN /\ message' = Append(message, doc)
                /\ resp' = Response("send", rq, 200,
                             serialize(FindOne(SelectSeq(message', LAMBDA d : d._id = mid))))
  /\ UNCHANGED <<match, profile, handlers>>

(* ------------------ concurrent like_profile requests ------------------ *)
(* Each request runs in its own worker.  update_one and find_one are two   *)
(* separate commands; with no unique index on (user_id, target_id), an     *)
(* upsert that matched no document inserts one without excluding another   *)
(* upsert of the same key that also matched none.                          *)

Handler(pc, rq, now, created, result) ==
  [pc |-> pc, req |-> rq, now |-> now, created |-> created, resp |-> result]

\* validation, to_oid, the self check, and the two datetime.utcnow() calls
\* that build the update document
LikeReceive(p, payload) ==
  LET user_oid == to_oid(payload.user_id)
      target_oid == to_oid(payload.target_id)
  IN
  /\ handlers[p].pc = "idle"
  /\ IF payload.action \notin ActionPattern
     THEN /\ handlers' = [handlers EXCEPT ![p] = Handler("done", payload, 0, 0,
                             Error("like", payload, 422, "string_pattern_mismatch"))]
          /\ UNCHANGED clock
     ELSE IF user_oid = Invalid \/ target_oid = Invalid
     THEN /\ handlers' = [handlers EXCEPT ![p] = Handler("done", payload, 0, 0,
                             Error("like", payload, 400, "Invalid id format"))]
          /\ UNCHANGED clock
     ELSE IF SelfTarget(payload)
     THEN /\ handlers' = [handlers EXCEPT ![p] = Handler("done", payload, 0, 0,
                             Error("like", payload, 400, "Cannot like yourself"))]
          /\ UNCHANGED clock
     ELSE \E now \in Later(clock) : \E created \in Later(now) :
          /\ handlers' = [handlers EXCEPT ![p] = Handler("update", payload, now, created, None)]
          /\ clock' = created
  /\ UNCHANGED <<match, profile, message, resp>>

\* update_one looks the key up: a matching document is updated in place,
\* otherwise the upsert goes on to insert
LikeUpdateOne(p) ==
  LET h == handlers[p]
      i == MatchKeyIndex(match, to_oid(h.req.user_id), to_oid(h.req.target_id))
  IN
  /\ h.pc = "update"
  /\ IF i # 0
     THEN /\ match' = UpdateMatchDoc(match, i, h.req.action, h.now)
          /\ handlers' = [handlers EXCEPT ![p].pc = "check"]
     ELSE /\ handlers' = [handlers EXCEPT ![p].pc = "insert"]
          /\ UNCHANGED match
  /\ UNCHANGED <<profile, message, clock, resp>>

\* the upsert's insert
LikeInsert(p) ==
  LET h == handlers[p]
  IN
  /\ h.pc = "insert"
  /\ match' = InsertMatchDoc(match, to_oid(h.req.user_id), to_oid(h.req.target_id),
                             h.req.action, h.now, h.created)
  /\ handlers' = [handlers EXCEPT ![p].pc = "check"]
  /\ UNCHANGED <<profile, message, clock, resp>>

LikeCheck_ReadsBeforeWrite(p) ==
  LET h == handlers[p]
      matched == h.req.action = "like"
                 /\ ReciprocalLike(match, to_oid(h.req.user_id), to_oid(h.req.target_id))
      result == Response("like", h.req, 200, [matched |-> matched])
  IN
  /\ \/ /\ h.pc = "update" /\ h.resp = None
        /\ handlers' = [handlers EXCEPT ![p].resp = result]
     \/ /\ h.pc = "check"
        /\ handlers' = [handlers EXCEPT ![p].pc = "done",
                                        ![p].resp = IF h.resp = None THEN result ELSE h.resp]
  /\ UNCHANGED <<match, profile, message, clock, resp>>

\* the reciprocal find_one and the return
LikeCheck(p) ==
  LET h == handlers[p]
      matched == h.req.action = "like"
                 /\ ReciprocalLike(match, to_oid(h.req.user_id), to_oid(h.req.target_id))
  IN
  /\ h.pc = "check"
  /\ handlers' = [handlers EXCEPT ![p].pc = "done",
                                  ![p].resp = Response("like", h.req, 200, [matched |-> matched])]
  /\ UNCHANGED <<match, profile, message, clock, resp>>

(* ----------------------------- specifications ------------------------- *)

InitConc ==
  /\ match \in {<<>>} \cup {InsertMatchDoc(<<>>, 1, 2, a, 0, 0) : a \in ActionPattern}
  /\ profile = <<>>
  /\ message = <<>>
  /\ clock = 0
  /\ resp = NoResponse
  /\ handlers = NoHandlers

\* the decision ledger on its own
NextLedger ==
  \E payload \in LikeRequests : like_profile(payload) /\ Len(match') <= MaxMatch

SpecLedger == Init /\ [][NextLedger]_vars

\* profiles, decisions and discovery
NextDiscovery ==
  \/ \E details \in DetailsRequests :
       create_or_complete_profile(details) /\ Len(profile') <= MaxProfiles
  \/ \E payload \in UpdatePayloads : update_profile(payload)
  \/ \E s \in UserIds \cup {Upper1} : next_profile(s)
  \/ \E payload \in DecisionRequests : like_profile(payload) /\ Len(match') <= MaxActed

SpecDiscovery == Init /\ [][NextDiscovery]_vars

\* profiles, decisions and the chat list; list_chats reads no timestamp, and
\* every request is served within one reading of the clock
NextChats ==
  \/ \E details \in DetailsRequests :
       /\ create_or_complete_profile(details)
       /\ Len(profile') <= MaxProfiles /\ clock' = clock
  \/ \E payload \in DecisionRequests :
       like_profile(payload) /\ Len(match') <= MaxMatch /\ clock' = clock
  \/ \E s \in UserIds \cup {Upper1} : list_chats(s)

SpecChats == Init /\ [][NextChats]_vars

\* the message log
NextMessages ==
  \/ \E query \in MessageQueries : get_messages(query)
  \/ \E payload \in SendRequests : send_message(payload) /\ Len(message') <= MaxMsgs

SpecMessages == Init /\ [][NextMessages]_vars

\* like_profile requests in flight at once, on an empty ledger or on one
\* that holds a decision of user 1 about user 2
NextConc ==
  \/ \E p \in Procs, payload \in ConcRequests : LikeReceive(p, payload)
  \/ \E p \in Procs : LikeUpdateOne(p)
  \/ \E p \in Procs : LikeInsert(p)
  \/ \E p \in Procs : LikeCheck(p)

SpecConc == InitConc /\ [][NextConc]_vars

(* ------------------------------- properties --------------------------- *)

\* the documents of m recording a decision of a about b
DecisionDocs(m, a, b) == SelectSeq(m, LAMBDA d : d.user_id = a /\ d.target_id = b)

\* getDecision(a, b) == like
HasLike(m, a, b) == \E i \in DOMAIN m :
  m[i].user_id = a /\ m[i].target_id = b /\ m[i].action = "like"

\* isMatch(a, b): likes recorded in both directions
IsMatch(m, a, b) == HasLike(m, a, b) /\ HasLike(m, b, a)

\* the last request was a like_profile call that returned normally
LikeReturned(r) == r.op = "like" /\ r.status = 200

\* C1: when A's like toward B is on record and B then records a like toward
\* A, B's call returns matched = true and isMatch holds in both directions
\* afterwards.
C1_MutualLikeMatches ==
  [][(/\ LikeReturned(resp')
      /\ resp'.req.action = "like"
      /\ HasLike(match, to_oid(resp'.req.target_id), to_oid(resp'.req.user_id)))
     => (/\ resp'.body.matched = TRUE
         /\ IsMatch(match', to_oid(resp'.req.target_id), to_oid(resp'.req.user_id))
         /\ IsMatch(match', to_oid(resp'.req.user_id), to_oid(resp'.req.target_id)))]_vars

\* user 2 liked user 1 after user 1 had liked user 2, and the call matched
C1_Witness ==
  /\ LikeReturned(resp)
  /\ resp.req = LikeRequest(OidStr(2), OidStr(1), "like")
  /\ resp.body.matched = TRUE
  /\ Len(match) = 2 /\ match[1].user_id = 1 /\ match[1].target_id = 2
  /\ IsMatch(match, 1, 2)

\* C3: a decision of a user about itself, like or dislike, is answered with
\* an error and changes no document of the ledger, and no document of any
\* reachable ledger has user_id = target_id.
C3_SelfActionRejected ==
  /\ [](\A i \in DOMAIN match : match[i].user_id # match[i].target_id)
  /\ [][(/\ resp'.op = "like"
         /\ resp'.req.action \in {"like", "dislike"}
         /\ to_oid(resp'.req.user_id) \in Users
         /\ to_oid(resp'.req.user_id) = to_oid(resp'.req.target_id))
        => (/\ resp'.status = 400
            /\ resp'.body = [detail |-> "Cannot like yourself"]
            /\ match' = match)]_vars

\* a self-dislike was rejected on a ledger that holds decisions
C3_Witness ==
  /\ resp.op = "like"
  /\ resp.req = LikeRequest(OidStr(3), OidStr(3), "dislike")
  /\ resp.status = 400
  /\ Len(match) = 2

\* C4: the ledger holds at most one document per ordered pair (user_id,
\* target_id), whatever decisions were recorded, repeated or flipped; after
\* a decision is recorded there is exactly one document for its pair and it
\* carries that decision.
C4_OneRecordPerPair ==
  /\ \A a \in Users, b \in Users : Len(DecisionDocs(match, a, b)) <= 1
  /\ LikeReturned(resp) =>
       LET docs == DecisionDocs(match, to_oid(resp.req.user_id), to_oid(resp.req.target_id))
       IN Len(docs) = 1 /\ docs[1].action = resp.req.action

\* like(1, 2) was recorded over an earlier decision of 1 about 2
C4_Witness ==
  /\ LikeReturned(resp)
  /\ resp.req = LikeRequest(OidStr(1), OidStr(2), "like")
  /\ Len(DecisionDocs(match, 1, 2)) = 1
  /\ DecisionDocs(match, 1, 2)[1].updated_at > DecisionDocs(match, 1, 2)[1].created_at
  /\ Len(match) = 2

\* the last request was a next_profile call of user a that returned normally
NextReturned(r, a) ==
  r.op = "next" /\ r.status = 200 /\ to_oid(r.req.user_id) = a

\* user a has a decision on record about user b
Decided(m, a, b) == \E i \in DOMAIN m : m[i].user_id = a /\ m[i].target_id = b

\* the stored profiles next_profile may show to a: not a's own, not decided
Pool(m, pr, a) ==
  {i \in DOMAIN pr : pr[i].user_id # a /\ ~Decided(m, a, pr[i].user_id)}

\* C6: next_profile(A) never returns the profile of a user A has a decision
\* on record about, like or dislike, however that profile was updated
\* since, and never returns A's own profile.
C6_DecidedNeverShownAgain ==
  \A a \in Users :
    (NextReturned(resp, a) /\ resp.body # NoMoreProfiles)
      => /\ resp.body.user_id # a
         /\ ~Decided(match, a, resp.body.user_id)

\* user 1 disliked user 2, user 2's profile is the most recently updated
\* one, and next_profile(1) returned user 3's profile
C6_Witness ==
  /\ NextReturned(resp, 1)
  /\ resp.body # NoMoreProfiles
  /\ resp.body.user_id = 3
  /\ \E i \in DOMAIN match :
       match[i].user_id = 1 /\ match[i].target_id = 2 /\ match[i].action = "dislike"
  /\ \E i, j \in DOMAIN profile :
       /\ profile[i].user_id = 2 /\ profile[j].user_id = 3
       /\ profile[i].updated_at > profile[j].updated_at
       /\ profile[i].updated_at > profile[i].created_at

\* C7: the profile next_profile(A) returns is a stored profile of the pool
\* (owner neither A nor decided on by A) and no profile of the pool has a
\* greater updated_at.
C7_MostRecentlyUpdatedFirst ==
  \A a \in Users :
    (NextReturned(resp, a) /\ resp.body # NoMoreProfiles)
      => \E i \in Pool(match, profile, a) :
           /\ resp.body = serialize(profile[i])
           /\ \A j \in Pool(match, profile, a) :
                profile[j].updated_at <= profile[i].updated_at

\* two undecided candidates, inserted oldest last, and the newer is returned
C7_Witness ==
  /\ NextReturned(resp, 1)
  /\ resp.body # NoMoreProfiles
  /\ Len(profile) = 2
  /\ Pool(match, profile, 1) = {1, 2}
  /\ profile[1].updated_at > profile[2].updated_at
  /\ resp.body.user_id = profile[1].user_id

\* C8: next_profile(A) returns the "No more profiles" sentinel, as a normal
\* response, exactly when every stored profile belongs to A or to a user A
\* has decided on; otherwise it returns a profile.
C8_SentinelIffPoolEmpty ==
  \A a \in Users :
    (resp.op = "next" /\ to_oid(resp.req.user_id) = a)
      => /\ resp.status = 200
         /\ (resp.body = NoMoreProfiles) <=> (Pool(match, profile, a) = {})
         /\ resp.body # NoMoreProfiles =>
              \E i \in DOMAIN profile : resp.body = serialize(profile[i])

\* profiles are stored (user 1's own and the decided user 2's) and the pool
\* of user 1 is empty
C8_Witness ==
  /\ NextReturned(resp, 1)
  /\ resp.body = NoMoreProfiles
  /\ Len(profile) = 2
  /\ \E i \in DOMAIN profile : profile[i].user_id = 1
  /\ \E i \in DOMAIN profile : profile[i].user_id = 2
  /\ Decided(match, 1, 2)

\* the last request was a list_chats call of user a that returned normally
ChatsReturned(r, a) ==
  r.op = "chats" /\ r.status = 200 /\ to_oid(r.req.user_id) = a

\* the serialized profile of user b is an entry of the list
Lists(peers, b) == \E i \in DOMAIN peers : peers[i].user_id = b

HasProfile(pr, b) == \E i \in DOMAIN pr : pr[i].user_id = b

\* C9 as claimed: a peer liked without a like in return is not listed, and a
\* peer with likes on record in both directions is listed.
C9_MutualLikeListed ==
  \A a \in Users, b \in Users :
    (a # b /\ ChatsReturned(resp, a)) =>
      /\ (HasLike(match, a, b) /\ ~HasLike(match, b, a)) => ~Lists(resp.body, b)
      /\ IsMatch(match, a, b) => Lists(resp.body, b)

\* C9 (amended): a peer liked without a like in return is not listed; a peer
\* with likes on record in both directions is listed exactly when a profile
\* is stored for it.
C9_MutualLikeListedIfProfile ==
  \A a \in Users, b \in Users :
    (a # b /\ ChatsReturned(resp, a)) =>
      /\ (HasLike(match, a, b) /\ ~HasLike(match, b, a)) => ~Lists(resp.body, b)
      /\ IsMatch(match, a, b) => (Lists(resp.body, b) <=> HasProfile(profile, b))

\* users 1 and 2 like each other, both have a profile, and list_chats(1)
\* lists user 2
C9_Witness ==
  /\ ChatsReturned(resp, 1)
  /\ IsMatch(match, 1, 2)
  /\ HasProfile(profile, 1) /\ HasProfile(profile, 2)
  /\ Lists(resp.body, 2)

\* the documents of the message log between users a and b
Conversation(msgs, a, b) ==
  {i \in DOMAIN msgs : {msgs[i].sender_id, msgs[i].receiver_id} = {a, b}}

\* C10: with a limit no smaller than the number of messages between A and
\* B, get_messages(A, B, limit) returns each message between A and B once
\* and no other message, in ascending created_at order, and the same
\* sequence as get_messages(B, A, limit).
C10_ConversationBothDirections ==
  \A a \in Users, b \in Users :
    (/\ resp.op = "messages" /\ resp.status = 200
     /\ to_oid(resp.req.user_id) = a /\ to_oid(resp.req.peer_id) = b
     /\ resp.req.limit >= Cardinality(Conversation(message, a, b)))
    => /\ Len(resp.body) = Cardinality(Conversation(message, a, b))
       /\ \A i \in Conversation(message, a, b) :
            \E k \in DOMAIN resp.body : resp.body[k] = serialize(message[i])
       /\ \A k \in DOMAIN resp.body : \A l \in DOMAIN resp.body :
            k < l => \E i, j \in Conversation(message, a, b) :
                       /\ resp.body[k] = serialize(message[i])
                       /\ resp.body[l] = serialize(message[j])
                       /\ i # j
                       /\ message[i].created_at <= message[j].created_at
       /\ resp.body = GetMessages(message, b, a, resp.req.limit)

\* one message each way between users 1 and 2, sent at different times
C10_Witness ==
  /\ resp.op = "messages" /\ resp.status = 200
  /\ resp.req = [user_id |-> OidStr(1), peer_id |-> OidStr(2), limit |-> DefaultLimit]
  /\ Len(resp.body) = 2
  /\ Len(message) = 2
  /\ message[1].sender_id = 2 /\ message[1].receiver_id = 1
  /\ message[2].sender_id = 1 /\ message[2].receiver_id = 2
  /\ message[1].created_at < message[2].created_at

\* handler p has returned from a like_profile call recording action a
Returned(p, a) ==
  /\ handlers[p].pc = "done"
  /\ handlers[p].resp.status = 200
  /\ handlers[p].req.action = a

\* handler p holds a request (in flight or answered) about the pair {a, b}
Concerns(p, a, b) ==
  /\ handlers[p].pc # "idle"
  /\ {to_oid(handlers[p].req.user_id), to_oid(handlers[p].req.target_id)} = {a, b}

\* C2: when two handlers run like(A, B) and like(B, A) at once, their
\* update_one and find_one commands interleaved in any order, and no other
\* request concerns the pair, then once both have returned at least one of
\* them has returned matched = true and both likes are on record.
C2_ConcurrentLikesMatch ==
  \A p \in Procs, q \in Procs :
    (/\ p # q
     /\ Returned(p, "like") /\ Returned(q, "like")
     /\ to_oid(handlers[p].req.user_id) = to_oid(handlers[q].req.target_id)
     /\ to_oid(handlers[p].req.target_id) = to_oid(handlers[q].req.user_id)
     /\ \A r \in Procs \ {p, q} :
          ~Concerns(r, to_oid(handlers[p].req.user_id), to_oid(handlers[p].req.target_id)))
    => /\ handlers[p].resp.body.matched \/ handlers[q].resp.body.matched
       /\ IsMatch(match, to_oid(handlers[p].req.user_id), to_oid(handlers[p].req.target_id))

\* the two likes crossed: the first to read found nothing, the second matched
C2_Witness ==
  /\ Returned(1, "like") /\ Returned(2, "like")
  /\ handlers[1].req = LikeRequest(OidStr(1), OidStr(2), "like")
  /\ handlers[2].req = LikeRequest(OidStr(2), OidStr(1), "like")
  /\ ~handlers[1].resp.body.matched
  /\ handlers[2].resp.body.matched
  /\ Len(match) = 2

\* no like_profile request is between its update_one and its return
Quiescent == \A p \in Procs : handlers[p].pc \in {"idle", "done"}

\* C5: after handlers have recorded decisions on one pair (user_id,
\* target_id) at the same time, the ledger holds exactly one document for
\* the pair, carrying the decision of one of the calls.
C5_ConcurrentUpsertOneRecord ==
  Quiescent =>
    \A p \in Procs :
      handlers[p].pc = "done" /\ handlers[p].resp.status = 200 =>
        LET docs == DecisionDocs(match, to_oid(handlers[p].req.user_id),
                                        to_oid(handlers[p].req.target_id))
        IN /\ Len(docs) = 1
           /\ \E q \in Procs :
                /\ handlers[q].pc = "done" /\ handlers[q].resp.status = 200
                /\ handlers[q].req.user_id = handlers[p].req.user_id
                /\ handlers[q].req.target_id = handlers[p].req.target_id
                /\ docs[1].action = handlers[q].req.action

\* the last request was a get_messages call of a about b that returned normally
MessagesReturned(r, a, b) ==
  /\ r.op = "messages" /\ r.status = 200
  /\ to_oid(r.req.user_id) = a /\ to_oid(r.req.peer_id) = b

\* the whole conversation of a and b: ascending created_at, no limit
FullConversation(msgs, a, b) ==
  SerializeAll(Sort(SelectSeq(msgs, LAMBDA d : Between(d, a, b)), "created_at", 1))

\* C11: for every limit a caller can pass, get_messages(A, B, limit) returns
\* at most limit messages, and they are a prefix of the conversation's full
\* ascending-created_at sequence (the oldest messages).
C11_AtMostLimitOldest ==
  \A a \in Users, b \in Users :
    MessagesReturned(resp, a, b) =>
      /\ Len(resp.body) <= resp.req.limit
      /\ Len(resp.body) <= Len(FullConversation(message, a, b))
      /\ resp.body = SubSeq(FullConversation(message, a, b), 1, Len(resp.body))

(* ------------------- every handler, one request at a time ------------- *)

\* decisions of users 1 and 2 about each other, and decisions that involve
\* a third user
SessionLikes ==
  {LikeRequest(OidStr(1), OidStr(2), a) : a \in {"like", "dislike"}}
    \cup {LikeRequest(OidStr(2), OidStr(1), a) : a \in {"like", "dislike"}}
    \cup {LikeRequest(OidStr(3), OidStr(1), "like"), LikeRequest(OidStr(1), OidStr(3), "like")}

SessionSends ==
  {[user_id |-> OidStr(1), peer_id |-> OidStr(2), text |-> "hi"],
   [user_id |-> OidStr(2), peer_id |-> OidStr(1), text |-> "hi"]}

SessionQueries ==
  {[user_id |-> OidStr(1), peer_id |-> OidStr(2), limit |-> DefaultLimit],
   [user_id |-> OidStr(2), peer_id |-> OidStr(1), limit |-> DefaultLimit]}

SessionProfiles == {[user_id |-> OidStr(2), nickname |-> "nick"]}

NextSession ==
  \/ \E payload \in SessionLikes : like_profile(payload) /\ Len(match') <= MaxMatch
  \/ \E payload \in SessionSends : send_message(payload) /\ Len(message') <= MaxMsgs
  \/ \E query \in SessionQueries : get_messages(query)
  \/ \E details \in SessionProfiles : create_or_complete_profile(details)
  \/ \E payload \in SessionProfiles : update_profile(payload)
  \/ next_profile(OidStr(1))
  \/ list_chats(OidStr(1))

SpecSession == Init /\ [][NextSession]_vars

\* C12: send_message appends exactly one message and changes or removes no
\* stored one, no other handler changes the message log, and
\* get_messages(A, B, 50) returns every stored message between A and B as
\* stored, whatever the ledger says about A and B at the time (also after a
\* like has been replaced by a dislike).
C12_MessagesPersist ==
  /\ [](\A a \in Users, b \in Users :
          (MessagesReturned(resp, a, b) /\ resp.req.limit = DefaultLimit) =>
            \A i \in Conversation(message, a, b) :
              \E k \in DOMAIN resp.body : resp.body[k] = serialize(message[i]))
  /\ [][\/ message' = message
        \/ /\ resp'.op = "send" /\ resp'.status = 200
           /\ Len(message') = Len(message) + 1
           /\ SubSeq(message', 1, Len(message)) = message
           /\ message'[Len(message')].sender_id = to_oid(resp'.req.user_id)
           /\ message'[Len(message')].receiver_id = to_oid(resp'.req.peer_id)
           /\ message'[Len(message')].text = resp'.req.text]_vars

\* user 1 sent "hi" to user 2, user 2 has since replaced its decision about
\* user 1 by a dislike, and get_messages(1, 2, 50) returned the message
C12_Witness ==
  /\ MessagesReturned(resp, 1, 2)
  /\ resp.req.limit = DefaultLimit
  /\ Len(resp.body) = 1 /\ resp.body[1].text = "hi" /\ resp.body[1].sender_id = 1
  /\ HasLike(match, 1, 2)
  /\ ~IsMatch(match, 1, 2)
  /\ \E i \in DOMAIN match :
       /\ match[i].user_id = 2 /\ match[i].target_id = 1 /\ match[i].action = "dislike"
       /\ match[i].updated_at > match[i].created_at
       /\ message[1].created_at <= match[i].created_at

(* ---------------------- storage calls that fail ----------------------- *)
(* like_profile wraps neither update_one nor find_one in a try block: an   *)
(* exception of the driver leaves the handler and is answered with 500.    *)
(* The update_one that raised was either not executed by the server or     *)
(* executed as a whole (a write to one document is atomic); a find_one     *)
(* that raises follows an update_one that was executed.                    *)

StorageError_Swallowed(op, rq) == Response(op, rq, 200, [matched |-> FALSE])

\* the response to a request whose handler raised a driver exception
StorageError(op, rq) == Error(op, rq, 500, "Internal Server Error")

\* like_profile on a request that passes validation, with a storage call
\* that raises
like_profile_storage_error(payload) ==
  LET user_oid == to_oid(payload.user_id)
      target_oid == to_oid(payload.target_id)
  IN
  /\ payload.action \in ActionPattern
  /\ user_oid # Invalid /\ target_oid # Invalid
  /\ ~SelfTarget(payload)
  /\ \E now \in Later(clock) : \E created \in Later(now) :
       /\ match' \in {match,
                      UpsertMatch(match, user_oid, target_oid, payload.action, now, created)}
       /\ clock' = created
  /\ resp' = StorageError("like", payload)
  /\ UNCHANGED <<profile, message, handlers>>

NextFail ==
  \/ \E payload \in DecisionRequests : like_profile(payload) /\ Len(match') <= MaxMatch
  \/ \E payload \in DecisionRequests :
       like_profile_storage_error(payload) /\ Len(match') <= MaxMatch

SpecFail == Init /\ [][NextFail]_vars

\* a complete ledger document
WellFormed(d) ==
  /\ DOMAIN d = {"_id", "user_id", "target_id", "action", "updated_at", "created_at"}
  /\ d.action \in ActionPattern
  /\ d.updated_at \in Times /\ d.created_at \in Times
  /\ d.user_id \in Users /\ d.target_id \in Users

\* the ledger m2 is m1 after the whole upsert of request rq
Applied(m1, m2, rq) ==
  \E now \in Times, created \in Times :
    m2 = UpsertMatch(m1, to_oid(rq.user_id), to_oid(rq.target_id), rq.action, now, created)

\* C13: every like_profile call, failed storage calls included, leaves the
\* ledger unchanged or applies its whole upsert; every document of every
\* reachable ledger has an action in {like, dislike}, a created_at and an
\* updated_at; and a call answered as a success has its upsert applied and
\* its matched value read from the ledger, so that a failed storage call is
\* answered with an error.
C13_NoPartialDecision ==
  /\ [](\A i \in DOMAIN match : WellFormed(match[i]))
  /\ [][resp'.op = "like" => (match' = match \/ Applied(match, match', resp'.req))]_vars
  /\ [][LikeReturned(resp') =>
          /\ Applied(match, match', resp'.req)
          /\ resp'.body.matched =
               (/\ resp'.req.action = "like"
                /\ HasLike(match', to_oid(resp'.req.target_id), to_oid(resp'.req.user_id)))]_vars

\* like(2, 1) failed with the ledger left as it was: it holds user 1's like
\* alone, and the call was answered with an error
C13_Witness ==
  /\ resp.op = "like" /\ resp.status = 500
  /\ resp.req = LikeRequest(OidStr(2), OidStr(1), "like")
  /\ Len(match) = 1
  /\ match[1].user_id = 1 /\ match[1].target_id = 2 /\ match[1].action = "like"

(* ------------- concurrent decisions followed by more requests --------- *)

\* return {"matched": matched}: the response goes out and the worker is free
\* to serve another request
LikeReturn(p) ==
  /\ handlers[p].pc = "done"
  /\ resp' = handlers[p].resp
  /\ handlers' = [handlers EXCEPT ![p] = [pc |-> "idle"]]
  /\ UNCHANGED <<match, profile, message, clock>>

\* user 1 deciding about user 2, and user 2 liking user 1
RaceRequests ==
  {LikeRequest(OidStr(1), OidStr(2), "like"), LikeRequest(OidStr(1), OidStr(2), "dislike"),
   LikeRequest(OidStr(2), OidStr(1), "like")}

\* workers serving like_profile requests at once and one after another, the
\* profile of user 2, and the chat lists; every request is served within
\* one reading of the clock
NextRace ==
  \/ \E p \in Procs, payload \in RaceRequests : LikeReceive(p, payload) /\ clock' = clock
  \/ \E p \in Procs : LikeUpdateOne(p)
  \/ \E p \in Procs : LikeInsert(p) /\ Len(match') <= MaxRace
  \/ \E p \in Procs : LikeCheck(p)
  \/ \E p \in Procs : LikeReturn(p)
  \/ \E details \in SessionProfiles :
       /\ create_or_complete_profile(details)
       /\ Len(profile') <= MaxProfiles /\ clock' = clock
  \/ \E s \in {OidStr(1), OidStr(2)} : list_chats(s)

SpecRace == Init /\ [][NextRace]_vars

\* handler p executes the write of its update_one in this step
Writes(p) ==
  /\ handlers[p].pc \in {"update", "insert"}
  /\ handlers'[p].pc = "check"

\* C14: when A and B are matched and a dislike of A toward B is written,
\* isMatch(A, B) is false in the next state; A's like toward B is on record
\* again only through a write of a like of A toward B; and a dislike call
\* returns matched = false.
C14_DislikeBreaksMatch ==
  /\ [](\A p \in Procs : Returned(p, "dislike") => ~handlers[p].resp.body.matched)
  /\ [][\A p \in Procs :
          (/\ Writes(p) /\ handlers[p].req.action = "dislike"
           /\ IsMatch(match, to_oid(handlers[p].req.user_id),
                             to_oid(handlers[p].req.target_id)))
            => ~IsMatch(match', to_oid(handlers[p].req.user_id),
                                to_oid(handlers[p].req.target_id))]_vars
  /\ [][\A a \in Users, b \in Users :
          (~HasLike(match, a, b) /\ HasLike(match', a, b))
            => \E p \in Procs :
                 /\ Writes(p) /\ handlers[p].req.action = "like"
                 /\ to_oid(handlers[p].req.user_id) = a
                 /\ to_oid(handlers[p].req.target_id) = b]_vars

\* C15: isMatch(A, B) turns from false to true only in a like_profile step
\* that records a like of A toward B or of B toward A: never in a dislike,
\* a send, a profile write, a read, or a decision that involves a third
\* user.
C15_MatchedOnlyByLike ==
  [][\A a \in Users, b \in Users :
       (a # b /\ ~IsMatch(match, a, b) /\ IsMatch(match', a, b))
         => /\ LikeReturned(resp')
            /\ resp'.req.action = "like"
            /\ {to_oid(resp'.req.user_id), to_oid(resp'.req.target_id)} = {a, b}
            /\ HasLike(match', to_oid(resp'.req.user_id), to_oid(resp'.req.target_id))]_vars

\* users 1 and 2 became matched by user 2's like, with a message and a
\* profile already stored
C15_Witness ==
  /\ LikeReturned(resp)
  /\ resp.req = LikeRequest(OidStr(2), OidStr(1), "like")
  /\ resp.body.matched
  /\ IsMatch(match, 1, 2)
  /\ Len(message) >= 1
  /\ HasProfile(profile, 2)

\* C16: with requests served one after another, the value a like call of A
\* toward B returns equals isMatch(A, B) on the ledger after the call's own
\* write: it is true exactly when B's decision toward A is on record and is
\* a like (also when the call repeats a like on a matched pair), and false
\* when B has no record toward A or a dislike.
C16_ReturnsMatchAfterWrite ==
  [][(LikeReturned(resp') /\ resp'.req.action = "like") =>
       LET a == to_oid(resp'.req.user_id)
           b == to_oid(resp'.req.target_id)
           theirs == DecisionDocs(match', b, a)
       IN /\ resp'.body.matched = IsMatch(match', a, b)
          /\ resp'.body.matched = (theirs # <<>> /\ theirs[1].action = "like")
          /\ theirs = DecisionDocs(match, b, a)]_vars

\* user 1 repeated its like toward user 2 with user 2's like on record, and
\* the call returned matched = true
C16_Witness ==
  /\ LikeReturned(resp)
  /\ resp.req = LikeRequest(OidStr(1), OidStr(2), "like")
  /\ resp.body.matched
  /\ Len(match) = 2
  /\ match[1].user_id = 1 /\ match[1].target_id = 2
  /\ match[2].user_id = 2 /\ match[2].target_id = 1 /\ match[2].action = "like"
  /\ match[1].updated_at > match[1].created_at
  /\ match[1].updated_at >= match[2].updated_at

\* C17: a decision about a target the actor has already decided on updates
\* the existing document in place: its action becomes the new one, its
\* updated_at is read from the clock anew, and its _id and created_at stay
\* as the first decision set them; no other document changes and none is
\* added.  No step removes the record of a pair.
C17_UpdatedInPlace ==
  /\ [][\A a \in Users, b \in Users : Decided(match, a, b) => Decided(match', a, b)]_vars
  /\ [][(/\ LikeReturned(resp')
         /\ Decided(match, to_oid(resp'.req.user_id), to_oid(resp'.req.target_id)))
        => \E i \in DOMAIN match :
             /\ match[i].user_id = to_oid(resp'.req.user_id)
             /\ match[i].target_id = to_oid(resp'.req.target_id)
             /\ DOMAIN match' = DOMAIN match
             /\ \A j \in DOMAIN match : j # i => match'[j] = match[j]
             /\ match'[i].action = resp'.req.action
             /\ match'[i].updated_at \in Later(clock)
             /\ match'[i].updated_at >= match[i].updated_at
             /\ match'[i].created_at = match[i].created_at
             /\ match'[i]._id = match[i]._id]_vars

\* user 1 replaced an earlier decision about user 2 by a dislike: the
\* document kept its place and its created_at, and has a later updated_at
C17_Witness ==
  /\ LikeReturned(resp)
  /\ resp.req = LikeRequest(OidStr(1), OidStr(2), "dislike")
  /\ Len(match) = 2
  /\ match[1].user_id = 1 /\ match[1].target_id = 2 /\ match[1].action = "dislike"
  /\ match[1].created_at = 0 /\ match[1].updated_at = 1
  /\ match[2].created_at = 0

\* document d records a decision of a about b
Keyed(d, a, b) == d.user_id = a /\ d.target_id = b

\* C18: a like_profile call of A about B changes no document of the ledger
\* other than the one keyed (A, B) (the reverse document (B, A) and the
\* documents of other actors and targets stay as they are, and a document
\* it adds is keyed (A, B)), and changes neither the profile store nor the
\* message log; next_profile, list_chats and get_messages change no
\* collection.
C18_DecisionTouchesOwnRecord ==
  /\ [][resp'.op = "like" =>
          LET a == to_oid(resp'.req.user_id)
              b == to_oid(resp'.req.target_id)
          IN /\ profile' = profile /\ message' = message
             /\ Len(match') >= Len(match)
             /\ \A i \in DOMAIN match : ~Keyed(match[i], a, b) => match'[i] = match[i]
             /\ \A i \in DOMAIN match' \ DOMAIN match : Keyed(match'[i], a, b)]_vars
  /\ [][resp'.op \in {"next", "chats", "messages"} =>
          /\ match' = match /\ profile' = profile /\ message' = message]_vars

\* user 1 disliked user 2 with user 2's like, a message and a profile
\* stored: user 2's document is as it was written
C18_Witness ==
  /\ LikeReturned(resp)
  /\ resp.req = LikeRequest(OidStr(1), OidStr(2), "dislike")
  /\ Len(match) = 2
  /\ Keyed(match[1], 2, 1) /\ match[1].action = "like"
  /\ match[1].updated_at = match[1].created_at
  /\ Keyed(match[2], 1, 2) /\ match[2].action = "dislike"
  /\ Len(message) = 1
  /\ HasProfile(profile, 2)

\* C19: in every reachable state, every entry of the list list_chats(A)
\* returns is the stored profile of a user B other than A with likes on
\* record from A to B and from B to A, no profile is listed more than once,
\* and a listed peer has a stored profile.
C19_ChatListSound ==
  \A a \in Users :
    LET peers == ListChats(match, profile, a)
    IN /\ \A k \in DOMAIN peers :
            \E i \in DOMAIN profile :
              /\ peers[k] = serialize(profile[i])
              /\ profile[i].user_id # a
              /\ IsMatch(match, a, profile[i].user_id)
       /\ \A k \in DOMAIN peers : \A l \in DOMAIN peers :
            k # l => peers[k].user_id # peers[l].user_id
       /\ \A b \in Users : Lists(peers, b) => HasProfile(profile, b)

(* --------------------------- discovery rounds ------------------------- *)

\* the profiles of users 2 and 3
DrainProfiles == {[user_id |-> OidStr(u), nickname |-> "nick"] : u \in {2, 3}}

\* user 1's decisions about users 2 and 3, and a decision of another user
DrainLikes ==
  {LikeRequest(OidStr(1), OidStr(2), "like"), LikeRequest(OidStr(1), OidStr(3), "dislike"),
   LikeRequest(OidStr(2), OidStr(1), "like")}

\* user 1 going through its candidates while profiles are created and
\* updated and another user decides
NextDrain ==
  \/ \E details \in DrainProfiles :
       create_or_complete_profile(details) /\ Len(profile') <= MaxProfiles
  \/ \E payload \in DrainProfiles : update_profile(payload)
  \/ next_profile(OidStr(1))
  \/ \E payload \in DrainLikes : like_profile(payload) /\ Len(match') <= MaxMatch

SpecDrain == Init /\ [][NextDrain]_vars

\* the users next_profile can still show to a
Remaining(m, pr, a) == {pr[i].user_id : i \in Pool(m, pr, a)}

\* the users other than a that have a stored profile
OtherProfiles(pr, a) == {pr[i].user_id : i \in {j \in DOMAIN pr : pr[j].user_id # a}}

\* C20: discovery drains.  The users next_profile(A) can still return are
\* never more than the other users with a profile; next_profile(A) returns
\* the sentinel exactly when none is left; a decision of A about the
\* candidate next_profile(A) returns leaves one user fewer; and in a step
\* that creates no profile (a profile update, a decision of any user, a
\* read) no user is added, so that the sentinel, once returned, is returned
\* from then on.
C20_DiscoveryDrains ==
  /\ [](\A a \in Users :
          /\ Cardinality(Remaining(match, profile, a))
               <= Cardinality(OtherProfiles(profile, a))
          /\ (NextProfile(match, profile, a) = NoMoreProfiles)
               <=> (Remaining(match, profile, a) = {}))
  /\ [][(/\ LikeReturned(resp')
         /\ NextProfile(match, profile, to_oid(resp'.req.user_id)) # NoMoreProfiles
         /\ NextProfile(match, profile, to_oid(resp'.req.user_id)).user_id
              = to_oid(resp'.req.target_id))
        => Cardinality(Remaining(match', profile', to_oid(resp'.req.user_id)))
             = Cardinality(Remaining(match, profile, to_oid(resp'.req.user_id))) - 1]_vars
  /\ [][\A a \in Users :
          Len(profile') = Len(profile) =>
            /\ Remaining(match', profile', a) \subseteq Remaining(match, profile, a)
            /\ NextProfile(match, profile, a) = NoMoreProfiles
                 => NextProfile(match', profile', a) = NoMoreProfiles]_vars

\* user 1 decided on users 2 and 3, a profile was updated since, and
\* next_profile(1) returned the sentinel
C20_Witness ==
  /\ NextReturned(resp, 1)
  /\ resp.body = NoMoreProfiles
  /\ OtherProfiles(profile, 1) = {2, 3}
  /\ Decided(match, 1, 2) /\ Decided(match, 1, 3)
  /\ \E i \in DOMAIN profile : profile[i].updated_at > profile[i].created_at

====
